---------------------------- MODULE Spec2Model ----------------------------
(***************************************************************************)
(* Model of homework.py: a bot that polls the homework-review API, checks  *)
(* the decoded response, formats the status of the first homework record   *)
(* and sends it to a Telegram chat, de-duplicating failure notifications.  *)
(*                                                                         *)
(* Python values are records tagged with their type, so that values of     *)
(* different types can be compared.  A missing dictionary key is the       *)
(* marker Absent.  Strings built by f-strings are records holding the      *)
(* template and the interpolated values.                                   *)
(***************************************************************************)
EXTENDS Integers, Sequences, FiniteSets, TLC

VARIABLES
    PRACTICUM_TOKEN,     \* module global, os.getenv('PRACTICUM_TOKEN')
    TELEGRAM_TOKEN,      \* module global, os.getenv('TELEGRAM_TOKEN')
    TELEGRAM_CHAT_ID,    \* module global, os.getenv('TELEGRAM_CHAT_ID')
    pc,                  \* position of main
    current_timestamp,   \* main's local: the poll cursor
    error_cache,         \* main's local: last notified failure message
    response,            \* main's local: decoded API response of the cycle
    homeworks,           \* main's local: result of check_response
    text,                \* main's local: result of parse_status
    error,               \* exception caught by an except clause of main
    message,             \* main's local in the generic handler
    uncaught,            \* exception propagating out of main's try statement
    from_date,           \* history: argument of the last get_api_answer call
    cycle_start,         \* history: current_timestamp when the cycle began
    cache_start,         \* history: error_cache when the cycle began
    call,                \* history: the send_message call of this cycle
    outcome,             \* history: how the try body of this cycle ended
    sleeps,              \* history: time.sleep calls made in this cycle
    slept,               \* history: seconds slept in this cycle
    http_reply,          \* history: what requests.get did in this cycle
    prev,                \* history: outcome and call of the previous cycle
    notified,            \* history: the last failure message delivered
    watch,               \* history: a failure message to count, or Unbound
    watch_count          \* history: notifications delivered carrying watch

vars == <<PRACTICUM_TOKEN, TELEGRAM_TOKEN, TELEGRAM_CHAT_ID, pc,
          current_timestamp, error_cache, response, homeworks, text, error,
          message, uncaught, from_date, cycle_start, cache_start, call,
          outcome, sleeps, slept, http_reply, prev, notified, watch,
          watch_count>>

-----------------------------------------------------------------------------
(* Bounds and program constants *)

MaxTime == 2          \* timestamps are 0..MaxTime
MaxCount == 2         \* watch_count saturates here
RETRY_TIME == 600

Times == 0..MaxTime

-----------------------------------------------------------------------------
(* Python values *)

NoneValue == [type |-> "NoneType"]
Absent == [type |-> "absent"]
Unbound == [type |-> "unbound"]
StrV(s) == [type |-> "str", str |-> s]
IntV(i) == [type |-> "int", int |-> i]
ListV(items) == [type |-> "list", items |-> items]
DictV(hw, date) == [type |-> "dict", homeworks |-> hw, current_date |-> date]
RecordV(name, status) ==
    [type |-> "dict", homework_name |-> name, status |-> status]

\* dict.get(key): the value, or None when the key is missing
Get(value) == IF value = Absent THEN NoneValue ELSE value

\* key in dict
HasKey(value) == value # Absent

\* isinstance(value, cls)
IsInstance(value, cls) == value.type = cls

\* truth value of a str-or-None value
Truthy(value) ==
    /\ value.type = "str"
    /\ value.str # ""

NoError == [kind |-> "none"]
Raise(kind, fmt, arg) == [kind |-> kind, fmt |-> fmt, arg |-> arg]
Ok(value) == [ok |-> TRUE, value |-> value]
Failed(exc) == [ok |-> FALSE, error |-> exc]

\* str(error): KeyError renders the repr of its argument, others the text
ErrorStr(exc) ==
    [fmt |-> exc.fmt, arg |-> exc.arg, repr |-> (exc.kind = "KeyError")]

EmptyStr == [fmt |-> ""]
NoCall == [made |-> FALSE]

-----------------------------------------------------------------------------
(* Inputs: what the environment can answer *)

TokenValues == {NoneValue, StrV(""), StrV("token")}

\* homework records: two valid ones, one with an unknown status, one with
\* neither a name nor a known status
Records ==
    {RecordV(StrV("hw1"), StrV("reviewing")),
     RecordV(StrV("hw1"), StrV("approved")),
     RecordV(StrV("hw1"), StrV("unknown")),
     RecordV(Absent, StrV("unknown"))}

\* what may follow the first record of a response
OlderRecords ==
    {RecordV(StrV("hw0"), StrV("rejected")), RecordV(StrV(""), Absent)}

HomeworkLists ==
    {<<>>} \cup {<<r>> : r \in Records}
           \cup {<<r, o>> : r \in Records, o \in OlderRecords}

HomeworksValues ==
    {Absent, StrV("homeworks")} \cup {ListV(l) : l \in HomeworkLists}

DateValues == {Absent, NoneValue, StrV("date")} \cup {IntV(t) : t \in Times}

Bodies ==
    {DictV(h, d) : h \in HomeworksValues, d \in DateValues}
        \cup {ListV(<<>>)}

Replies ==
    {[transport |-> "RequestException"]}
        \cup {[transport |-> "ok", status_code |-> 200, body |-> b] :
                 b \in Bodies}
        \cup {[transport |-> "ok", status_code |-> c, body |-> ListV(<<>>)] :
                 c \in {201, 503}}

TelegramReplies == {"ok", "TelegramError"}

-----------------------------------------------------------------------------
(* Module constants *)

ENDPOINT == StrV("https://practicum.yandex.ru/api/user_api/homework_statuses/")

HOMEWORK_STATUSES ==
    [s \in {"approved", "reviewing", "rejected"} |->
        CASE s = "approved" -> "checked: the reviewer liked everything"
          [] s = "reviewing" -> "taken for review by the reviewer"
          [] s = "rejected" -> "checked: the reviewer has remarks"]

\* homework_status in HOMEWORK_STATUSES (None and unknown strings are not)
InStatuses(status) ==
    /\ status.type = "str"
    /\ status.str \in DOMAIN HOMEWORK_STATUSES

-----------------------------------------------------------------------------
(* The functions of the module *)

\* send_message(bot, message), given what bot.send_message does
send_message(reply, msg) ==
    IF reply = "TelegramError"
    THEN Failed(Raise("BotError", "error sending message [{message}]", msg))
    ELSE Ok(NoneValue)

\* get_api_answer refusing only the error statuses
get_api_answer_ErrorsOnly(timestamp, reply) ==
    IF reply.transport # "ok"
    THEN Failed(Raise("ConnectionError",
                      "no access to endpoint {ENDPOINT} error: {error}",
                      StrV(reply.transport)))
    ELSE IF reply.status_code >= 400
    THEN Failed(Raise("ConnectionError",
                      "status of endpoint {ENDPOINT} is not 200, status {code}",
                      IntV(reply.status_code)))
    ELSE Ok(reply.body)

\* get_api_answer(current_timestamp), given what requests.get does
get_api_answer(timestamp, reply) ==
    IF reply.transport # "ok"
    THEN Failed(Raise("ConnectionError",
                      "no access to endpoint {ENDPOINT} error: {error}",
                      StrV(reply.transport)))
    ELSE IF reply.status_code # 200
    THEN Failed(Raise("ConnectionError",
                      "status of endpoint {ENDPOINT} is not 200, status {code}",
                      IntV(reply.status_code)))
    ELSE Ok(reply.body)

\* check_response without the current_date check
check_response_NoDateCheck(resp) ==
    IF ~IsInstance(resp, "dict")
    THEN Failed(Raise("TypeError", "wrong type of received data: {type}",
                      StrV(resp.type)))
    ELSE LET hws == Get(resp.homeworks) IN
         IF ~HasKey(resp.homeworks)
         THEN Failed(Raise("KeyError", "no key homeworks in received data",
                           NoneValue))
         ELSE IF ~IsInstance(hws, "list")
         THEN Failed(Raise("TypeError", "wrong type of homeworks: {type}",
                           StrV(hws.type)))
         ELSE Ok(hws)

\* check_response looking for homeworks before current_date
check_response_HomeworksFirst(resp) ==
    IF ~IsInstance(resp, "dict")
    THEN Failed(Raise("TypeError", "wrong type of received data: {type}",
                      StrV(resp.type)))
    ELSE LET hws == Get(resp.homeworks) IN
         IF ~HasKey(resp.homeworks)
         THEN Failed(Raise("KeyError", "no key homeworks in received data",
                           NoneValue))
         ELSE IF ~HasKey(resp.current_date)
         THEN Failed(Raise("DateError", "no key current_date in received data",
                           NoneValue))
         ELSE IF ~IsInstance(hws, "list")
         THEN Failed(Raise("TypeError", "wrong type of homeworks: {type}",
                           StrV(hws.type)))
         ELSE Ok(hws)

check_response(resp) ==
    IF ~IsInstance(resp, "dict")
    THEN Failed(Raise("TypeError", "wrong type of received data: {type}",
                      StrV(resp.type)))
    ELSE LET hws == Get(resp.homeworks) IN
         IF ~HasKey(resp.current_date)
         THEN Failed(Raise("DateError", "no key current_date in received data",
                           NoneValue))
         ELSE IF ~HasKey(resp.homeworks)
         THEN Failed(Raise("KeyError", "no key homeworks in received data",
                           NoneValue))
         ELSE IF ~IsInstance(hws, "list")
         THEN Failed(Raise("TypeError", "wrong type of homeworks: {type}",
                           StrV(hws.type)))
         ELSE Ok(hws)

\* parse_status looking at the status before the name
parse_status_StatusFirst(homework) ==
    LET homework_name == Get(homework.homework_name)
        homework_status == Get(homework.status)
    IN  IF ~InStatuses(homework_status)
        THEN Failed(Raise("KeyError", "unexpected status: {status}",
                          homework_status))
        ELSE IF ~Truthy(homework_name)
        THEN Failed(Raise("KeyError", "no key homework_name", NoneValue))
        ELSE Ok([fmt |-> "status of work {homework_name} changed. {verdict}",
                 homework_name |-> homework_name.str,
                 verdict |-> HOMEWORK_STATUSES[homework_status.str]])

parse_status(homework) ==
    LET homework_name == Get(homework.homework_name)
             homework_status == Get(homework.status)
    IN  IF ~Truthy(homework_name)
        THEN Failed(Raise("KeyError", "no key homework_name", NoneValue))
        ELSE IF ~InStatuses(homework_status)
        THEN Failed(Raise("KeyError", "unexpected status: {status}",
                          homework_status))
        ELSE Ok([fmt |-> "status of work {homework_name} changed. {verdict}",
                 homework_name |-> homework_name.str,
                 verdict |-> HOMEWORK_STATUSES[homework_status.str]])

\* check_tokens returning after the first variable
check_tokens_FirstOnly == Truthy(PRACTICUM_TOKEN)

check_tokens ==
    LET env_vars == <<PRACTICUM_TOKEN, TELEGRAM_TOKEN, TELEGRAM_CHAT_ID>>
    IN  \A i \in DOMAIN env_vars : Truthy(env_vars[i])

\* message = f'... {error}' of the generic handler
GenericMessage(exc) ==
    [fmt |-> "program failure: {error}", error |-> ErrorStr(exc)]

\* the first record is skipped unless another follows it
HasHomework_Several(hws) == Len(hws.items) > 1

\* the last record is taken for the first
FirstRecord_Last(hws) == hws.items[Len(hws.items)]

\* line 152: homeworks[0]
FirstRecord(hws) == hws.items[1]

\* line 151: len(homeworks) > 0
HasHomework(hws) == Len(hws.items) > 0

\* the cursor takes current_date whatever its type
NextTimestamp_Any(timestamp, resp) == Get(resp.current_date)

\* the cursor never moves
NextTimestamp_Keep(timestamp, resp) == timestamp

\* lines 154-157: the cursor after a response, an integer current_date wins
NextTimestamp(timestamp, resp) ==
    LET response_date == Get(resp.current_date) IN
    IF IsInstance(response_date, "int") THEN response_date ELSE timestamp

\* the cache is not consulted
NeedsNotice_Always(cache, msg) == TRUE

\* line 165: error_cache != message
NeedsNotice(cache, msg) == cache # msg

\* DateError is not named in the first except clause
ExceptClause_BotOnly(exc) ==
    IF exc.kind \in {"BotError"}
    THEN "except_logged"
    ELSE "except_generic"

\* which except clause of main's try statement catches exc
ExceptClause(exc) ==
    IF exc.kind \in {"BotError", "DateError"}
    THEN "except_logged"
    ELSE "except_generic"

-----------------------------------------------------------------------------
(* Every generic failure message the inputs can produce *)

TryErrors ==
    {get_api_answer(0, r).error :
        r \in {q \in Replies : ~get_api_answer(0, q).ok}}
    \cup {check_response(b).error :
        b \in {q \in Bodies : ~check_response(q).ok}}
    \cup {parse_status(h).error :
        h \in {q \in Records : ~parse_status(q).ok}}

FailureMessages ==
    {GenericMessage(e) : e \in {x \in TryErrors :
                                   ExceptClause(x) = "except_generic"}}

-----------------------------------------------------------------------------
(* Initial state: the module is loaded, main has not run *)

\* the state when main is called; counted is the failure message whose
\* notifications are counted (Unbound: none)
Loaded(counted) ==
    /\ PRACTICUM_TOKEN \in TokenValues
    /\ TELEGRAM_TOKEN \in TokenValues
    /\ TELEGRAM_CHAT_ID \in TokenValues
    /\ pc = "main"
    /\ current_timestamp = Unbound
    /\ error_cache = Unbound
    /\ response = Unbound
    /\ homeworks = Unbound
    /\ text = Unbound
    /\ error = NoError
    /\ message = Unbound
    /\ uncaught = NoError
    /\ from_date = Unbound
    /\ cycle_start = Unbound
    /\ cache_start = Unbound
    /\ call = NoCall
    /\ outcome = "none"
    /\ sleeps = 0
    /\ slept = 0
    /\ http_reply = Unbound
    /\ prev = [outcome |-> "none", call |-> NoCall, message |-> Unbound]
    /\ notified = Unbound
    /\ watch = counted
    /\ watch_count = 0

Init == Loaded(Unbound)

\* the same, with one failure message singled out to count its notifications
WatchInit == \E m \in FailureMessages : Loaded(m)

\* the same, recording neither the previous cycle nor a count: the empty
\* string is no failure message
PlainInit == Loaded(EmptyStr)

tokens == <<PRACTICUM_TOKEN, TELEGRAM_TOKEN, TELEGRAM_CHAT_ID>>
marks == <<from_date, cycle_start, cache_start, http_reply>>
history == <<marks, call, outcome, sleeps, slept, prev, notified, watch,
             watch_count>>

\* a notification carrying msg was delivered to the chat
Delivered(msg) ==
    watch_count' = IF msg = watch /\ watch_count < MaxCount
                   THEN watch_count + 1
                   ELSE watch_count

\* an exception raised in the try body reaches the except clauses
RaiseInTry(exc) ==
    /\ error' = exc
    /\ pc' = ExceptClause(exc)

-----------------------------------------------------------------------------
(* main *)

\* lines 139-144 and 172-173: the token check and the set-up of the loop
Main ==
    /\ pc = "main"
    /\ IF check_tokens
       THEN /\ \E now \in Times : current_timestamp' = IntV(now)
            /\ error_cache' = EmptyStr
            /\ pc' = "try"
       ELSE /\ pc' = "halted"
            /\ UNCHANGED <<current_timestamp, error_cache>>
    /\ UNCHANGED <<tokens, response, homeworks, text, error, message,
                   uncaught, history>>

\* line 148: response = get_api_answer(current_timestamp); locals of the
\* previous cycle that are not read again are reset
GetApiAnswer ==
    /\ pc = "try"
    /\ \E reply \in Replies :
          LET r == get_api_answer(current_timestamp, reply) IN
          /\ http_reply' = reply
          /\ IF r.ok
             THEN /\ response' = r.value
                  /\ pc' = "check_response"
                  /\ error' = NoError
             ELSE /\ response' = Unbound
                  /\ RaiseInTry(r.error)
    /\ homeworks' = Unbound
    /\ text' = Unbound
    /\ from_date' = current_timestamp
    /\ cycle_start' = current_timestamp
    /\ cache_start' = error_cache
    /\ prev' = IF watch = Unbound
               THEN [outcome |-> outcome, call |-> call, message |-> message]
               ELSE prev
    /\ call' = NoCall
    /\ outcome' = "none"
    /\ sleeps' = 0
    /\ slept' = 0
    /\ UNCHANGED <<tokens, current_timestamp, error_cache, message, uncaught,
                   notified, watch, watch_count>>

\* line 149: homeworks = check_response(response)
CheckResponse ==
    /\ pc = "check_response"
    /\ LET r == check_response(response) IN
       IF r.ok
       THEN /\ homeworks' = r.value
            /\ pc' = "if_homeworks"
            /\ UNCHANGED error
       ELSE /\ RaiseInTry(r.error)
            /\ UNCHANGED homeworks
    /\ UNCHANGED <<tokens, current_timestamp, error_cache, response, text,
                   message, uncaught, history>>

\* lines 151-152: if len(homeworks) > 0: text = parse_status(homeworks[0])
ParseStatus ==
    /\ pc = "if_homeworks"
    /\ IF HasHomework(homeworks)
       THEN LET r == parse_status(FirstRecord(homeworks)) IN
            IF r.ok
            THEN /\ text' = r.value
                 /\ pc' = "send_message"
                 /\ UNCHANGED error
            ELSE /\ RaiseInTry(r.error)
                 /\ UNCHANGED text
       ELSE /\ pc' = "response_date"
            /\ UNCHANGED <<text, error>>
    /\ UNCHANGED <<tokens, current_timestamp, error_cache, response, homeworks,
                   message, uncaught, history>>

\* the cursor is moved before the status message is sent
SendStatus_AdvanceFirst ==
    /\ pc = "send_message"
    /\ current_timestamp' = NextTimestamp(current_timestamp, response)
    /\ \E reply \in TelegramReplies :
          LET r == send_message(reply, text) IN
          /\ call' = [made |-> TRUE, message |-> text, delivered |-> r.ok]
          /\ IF r.ok
             THEN /\ pc' = "response_date"
                  /\ Delivered(text)
                  /\ UNCHANGED error
             ELSE /\ RaiseInTry(r.error)
                  /\ UNCHANGED watch_count
    /\ UNCHANGED <<tokens, error_cache, response, homeworks,
                   text, message, uncaught, marks, outcome, sleeps, slept, prev,
                   notified, watch>>

\* line 153: send_message(bot, text)
SendStatus ==
    /\ pc = "send_message"
    /\ \E reply \in TelegramReplies :
          LET r == send_message(reply, text) IN
          /\ call' = [made |-> TRUE, message |-> text, delivered |-> r.ok]
          /\ IF r.ok
             THEN /\ pc' = "response_date"
                  /\ Delivered(text)
                  /\ UNCHANGED error
             ELSE /\ RaiseInTry(r.error)
                  /\ UNCHANGED watch_count
    /\ UNCHANGED <<tokens, current_timestamp, error_cache, response, homeworks,
                   text, message, uncaught, marks, outcome, sleeps, slept, prev,
                   notified, watch>>

\* a successful cycle clears the cached failure message
UpdateCursor_ClearCache ==
    /\ pc = "response_date"
    /\ current_timestamp' = NextTimestamp(current_timestamp, response)
    /\ error_cache' = EmptyStr
    /\ pc' = "finally"
    /\ outcome' = "success"
    /\ UNCHANGED <<tokens, response, homeworks, text, error, message, uncaught,
                   marks, call, sleeps, slept, prev, notified, watch,
                   watch_count>>

\* lines 154-157: the cursor follows an integer current_date
UpdateCursor ==
    /\ pc = "response_date"
    /\ current_timestamp' = NextTimestamp(current_timestamp, response)
    /\ pc' = "finally"
    /\ outcome' = "success"
    /\ UNCHANGED <<tokens, error_cache, response, homeworks, text, error,
                   message, uncaught, marks, call, sleeps, slept,
                   prev, notified,
                   watch, watch_count>>

\* the first except clause raises the exception again
ExceptLogged_Reraise ==
    /\ pc = "except_logged"
    /\ pc' = "finally"
    /\ outcome' = "logged"
    /\ uncaught' = error
    /\ UNCHANGED <<tokens, current_timestamp, error_cache, response, homeworks,
                   text, error, message, marks, call, sleeps, slept,
                   prev, notified,
                   watch, watch_count>>

\* lines 159-160: except (BotError, DateError): logger.error(error)
ExceptLogged ==
    /\ pc = "except_logged"
    /\ pc' = "finally"
    /\ outcome' = "logged"
    /\ UNCHANGED <<tokens, current_timestamp, error_cache, response, homeworks,
                   text, error, message, uncaught, marks, call, sleeps, slept,
                   prev,
                   notified, watch, watch_count>>

\* the generic handler without the assignment to error_cache
ExceptGeneric_CacheNotSet ==
    /\ pc = "except_generic"
    /\ message' = GenericMessage(error)
    /\ IF NeedsNotice(error_cache, message')
       THEN \E reply \in TelegramReplies :
               LET r == send_message(reply, message') IN
               /\ call' = [made |-> TRUE, message |-> message',
                           delivered |-> r.ok]
               /\ IF r.ok
                  THEN /\ Delivered(message')
                       /\ notified' = message'
                       /\ UNCHANGED <<error_cache, uncaught>>
                  ELSE /\ uncaught' = r.error
                       /\ UNCHANGED <<error_cache, notified, watch_count>>
       ELSE UNCHANGED <<error_cache, uncaught, call, notified, watch_count>>
    /\ pc' = "finally"
    /\ outcome' = "generic"
    /\ UNCHANGED <<tokens, current_timestamp, response, homeworks, text, error,
                   marks, sleeps, slept, prev, watch>>

\* the generic handler assigning error_cache before it sends
ExceptGeneric_CacheFirst ==
    /\ pc = "except_generic"
    /\ message' = GenericMessage(error)
    /\ IF NeedsNotice(error_cache, message')
       THEN \E reply \in TelegramReplies :
               LET r == send_message(reply, message') IN
               /\ call' = [made |-> TRUE, message |-> message',
                           delivered |-> r.ok]
               /\ error_cache' = message'
               /\ IF r.ok
                  THEN /\ Delivered(message')
                       /\ notified' = message'
                       /\ UNCHANGED uncaught
                  ELSE /\ uncaught' = r.error
                       /\ UNCHANGED <<notified, watch_count>>
       ELSE UNCHANGED <<error_cache, uncaught, call, notified, watch_count>>
    /\ pc' = "finally"
    /\ outcome' = "generic"
    /\ UNCHANGED <<tokens, current_timestamp, response, homeworks, text, error,
                   marks, sleeps, slept, prev, watch>>

\* lines 162-167: except Exception: notify unless the message is cached
ExceptGeneric ==
    /\ pc = "except_generic"
    /\ message' = GenericMessage(error)
    /\ IF NeedsNotice(error_cache, message')
       THEN \E reply \in TelegramReplies :
               LET r == send_message(reply, message') IN
               /\ call' = [made |-> TRUE, message |-> message',
                           delivered |-> r.ok]
               /\ IF r.ok
                  THEN /\ error_cache' = message'
                       /\ Delivered(message')
                       /\ notified' = message'
                       /\ UNCHANGED uncaught
                  ELSE /\ uncaught' = r.error
                       /\ UNCHANGED <<error_cache, notified, watch_count>>
       ELSE UNCHANGED <<error_cache, uncaught, call, notified, watch_count>>
    /\ pc' = "finally"
    /\ outcome' = "generic"
    /\ UNCHANGED <<tokens, current_timestamp, response, homeworks, text, error,
                   marks, sleeps, slept, prev, watch>>

\* the sleep follows the try statement instead of being its finally clause
Sleep_AfterTry ==
    /\ pc = "finally"
    /\ sleeps' = IF uncaught # NoError THEN sleeps ELSE sleeps + 1
    /\ slept' = IF uncaught # NoError THEN slept ELSE slept + RETRY_TIME
    /\ pc' = IF uncaught # NoError THEN "terminated" ELSE "try"
    /\ UNCHANGED <<tokens, current_timestamp, error_cache, response, homeworks,
                   text, error, message, uncaught, marks, call, outcome, prev,
                   notified, watch, watch_count>>

\* lines 169-170: finally: time.sleep(RETRY_TIME); then the next cycle, or
\* the exception of the handler leaves main
Sleep ==
    /\ pc = "finally"
    /\ sleeps' = sleeps + 1
    /\ slept' = slept + RETRY_TIME
    /\ pc' = IF uncaught # NoError THEN "terminated" ELSE "try"
    /\ UNCHANGED <<tokens, current_timestamp, error_cache, response, homeworks,
                   text, error, message, uncaught, marks, call, outcome, prev,
                   notified, watch, watch_count>>

Next ==
    \/ Main
    \/ GetApiAnswer
    \/ CheckResponse
    \/ ParseStatus
    \/ SendStatus
    \/ UpdateCursor
    \/ ExceptLogged
    \/ ExceptGeneric
    \/ Sleep

Spec == Init /\ [][Next]_vars

-----------------------------------------------------------------------------
(* One cycle over every shape of homework record *)

NameValues == {Absent, NoneValue, StrV(""), StrV("hw1"), StrV("hw2")}

StatusCodes ==
    {Absent, NoneValue, StrV(""), StrV("approved"), StrV("reviewing"),
     StrV("rejected"), StrV("unknown")}

AllRecords == {RecordV(n, c) : n \in NameValues, c \in StatusCodes}

\* the first cycle, when check_response has returned a list of one record
FormatInit ==
    \E rec \in AllRecords, date \in {IntV(0), NoneValue} :
        LET body == DictV(ListV(<<rec>>), date) IN
        /\ PRACTICUM_TOKEN = StrV("token")
        /\ TELEGRAM_TOKEN = StrV("token")
        /\ TELEGRAM_CHAT_ID = StrV("token")
        /\ pc = "if_homeworks"
        /\ current_timestamp = IntV(MaxTime)
        /\ error_cache = EmptyStr
        /\ response = body
        /\ homeworks = check_response(body).value
        /\ text = Unbound
        /\ error = NoError
        /\ message = Unbound
        /\ uncaught = NoError
        /\ from_date = IntV(MaxTime)
        /\ cycle_start = IntV(MaxTime)
        /\ cache_start = EmptyStr
        /\ call = NoCall
        /\ outcome = "none"
        /\ sleeps = 0
        /\ slept = 0
        /\ http_reply = [transport |-> "ok", status_code |-> 200, body |-> body]
        /\ prev = [outcome |-> "none", call |-> NoCall, message |-> Unbound]
        /\ notified = Unbound
        /\ watch = EmptyStr
        /\ watch_count = 0

\* the rest of that cycle
FormatNext ==
    \/ ParseStatus
    \/ SendStatus
    \/ UpdateCursor
    \/ ExceptLogged
    \/ ExceptGeneric
    \/ Sleep

FormatSpec == FormatInit /\ [][FormatNext]_vars

\* the interpreter keeps running main: no step that can be taken is put off
\* for ever
FairSpec == PlainInit /\ [][Next]_vars /\ WF_vars(Next)

\* the same program, observed through the count of one failure message
WatchSpec == WatchInit /\ [][Next]_vars

-----------------------------------------------------------------------------
(* Properties *)

\* the try body and the except clause of the current cycle are done
CycleDone == outcome # "none"

\* the previous cycle and this one both took the generic branch
TwoGeneric == outcome = "generic" /\ prev.outcome = "generic"

\* C1: de-duplication over consecutive generic failures.  When a cycle
\* ends in the generic branch with a message that is not the cached one
\* (its first occurrence), send_message is invoked once, with that message;
\* when the previous cycle ended in the generic branch with the same
\* message, the cycle invokes send_message not at all, so over the two
\* cycles the message is sent once, in the first; when the previous cycle
\* ended in the generic branch with a different message, send_message is
\* invoked again, with the new message.
C1_SameFailureNotifiedOnce ==
    outcome = "generic" =>
        /\ call.made => call.message = message
        /\ cache_start # message => call.made
        /\ prev.outcome = "generic" /\ prev.message = message => ~call.made
        /\ prev.outcome = "generic" /\ prev.message # message =>
               call.made /\ call.message = message

\* two consecutive generic failures with one message: sent in the first only
C1_Witness ==
    /\ TwoGeneric
    /\ prev.message = message
    /\ prev.call.made
    /\ prev.call.message = message
    /\ ~call.made

\* C2 as claimed: whatever happens in between, a failure message is
\* delivered to the chat at most once over the run.
C2_Original == watch_count <= 1

\* a generic handler has just delivered its notification
FailureDelivered ==
    /\ pc = "except_generic"
    /\ pc' = "finally"
    /\ call'.made
    /\ call'.delivered

\* C2, amended: a failure notification never carries the message of the
\* failure notification delivered before it; the same message is delivered
\* again only after a notification of a different failure message.
C2_NoRepeatInARow ==
    [][FailureDelivered => call'.message # notified /\ notified' = call'.message]_vars

\* the failures A, B, A: A is delivered a second time
C2_Witness ==
    /\ watch_count = 2
    /\ notified = watch
    /\ outcome = "generic"
    /\ call.made

\* C3 as claimed: a status notification equal to the one of the previous
\* successful cycle is not sent again.
C3_Original ==
    (/\ outcome = "success"
     /\ prev.outcome = "success"
     /\ prev.call.made
     /\ text = prev.call.message) => ~call.made

\* C3, amended: every successful cycle whose homeworks sequence is not empty
\* delivers the status of its first record, also when the previous successful
\* cycle delivered the same text.
C3_StatusSentEveryCycle ==
    outcome = "success" /\ Len(homeworks.items) > 0 =>
        /\ call.made
        /\ call.delivered
        /\ call.message = parse_status(homeworks.items[1]).value

\* two consecutive successful cycles deliver the same status text
C3_Witness ==
    /\ outcome = "success"
    /\ prev.outcome = "success"
    /\ call.made
    /\ prev.call = call

\* C4: once the loop runs, main stops only when the send_message of the
\* generic handler fails; every other exception of a cycle is caught and
\* the loop goes on, so unless main never entered the loop or that send
\* failed, get_api_answer is called again and again.
C4_LoopKeepsPolling ==
    /\ [](pc = "terminated" =>
              /\ outcome = "generic"
              /\ uncaught.kind = "BotError"
              /\ call.made /\ ~call.delivered /\ call.message = message)
    /\ [](CycleDone /\ uncaught = NoError => pc \in {"finally", "try"})
    /\ (<>(pc \in {"halted", "terminated"}) \/ []<><<GetApiAnswer>>_vars)

\* a generic failure was notified, and a later cycle has made its request
C4_Witness ==
    /\ cache_start # EmptyStr
    /\ pc = "check_response"

\* the cycle has a decoded mapping and check_response has examined it
Checked == response.type = "dict" /\ pc # "check_response"

\* C5: a mapping without current_date makes check_response raise DateError,
\* and the cursor stays what it was when the cycle began.
C5_MissingDateKeepsCursor ==
    Checked /\ response.current_date = Absent =>
        /\ error.kind = "DateError"
        /\ homeworks = Unbound
        /\ current_timestamp = cycle_start
        /\ CycleDone => outcome = "logged"

\* a cycle whose response had no current_date is over, the sleep included
C5_Witness ==
    /\ Checked
    /\ response.current_date = Absent
    /\ response.homeworks.type = "list"
    /\ pc = "try"
    /\ sleeps = 1

\* C6: a cycle whose exception is a BotError or a DateError is only logged:
\* its handling calls send_message not at all (a BotError cycle has made the
\* one failed status call, a DateError cycle none), error_cache keeps the
\* value it had when the cycle began, and the loop goes on.
C6_LoggedErrorsStaySilent ==
    CycleDone /\ error.kind \in {"BotError", "DateError"} =>
        /\ outcome = "logged"
        /\ error_cache = cache_start
        /\ uncaught = NoError
        /\ pc \in {"finally", "try"}
        /\ error.kind = "DateError" => ~call.made
        /\ error.kind = "BotError" =>
               call.made /\ ~call.delivered /\ call.message = text

\* the cycle after a failed status notification has made its request
C6_Witness ==
    /\ prev.outcome = "logged"
    /\ prev.call.made
    /\ ~prev.call.delivered
    /\ pc = "check_response"

\* C7 as claimed: a mapping without homeworks always ends in KeyError and
\* the generic branch.
C7_Original ==
    Checked /\ response.homeworks = Absent =>
        /\ error.kind = "KeyError"
        /\ CycleDone => outcome = "generic"

\* C7, amended: a mapping without homeworks ends in KeyError and the generic
\* branch when it has current_date; without current_date as well it ends in
\* DateError, which is logged and not notified.
C7_MissingHomeworks ==
    Checked /\ response.homeworks = Absent =>
        IF response.current_date = Absent
        THEN /\ error.kind = "DateError"
             /\ CycleDone => outcome = "logged" /\ ~call.made
        ELSE /\ error.kind = "KeyError"
             /\ CycleDone =>
                    /\ outcome = "generic"
                    /\ call.made <=> cache_start # message

\* a response with neither key was only logged
C7_Witness ==
    /\ Checked
    /\ response.homeworks = Absent
    /\ response.current_date = Absent
    /\ outcome = "logged"

\* C8 as claimed: a response whose homeworks is not a list or whose
\* current_date is not an integer is rejected by check_response, and no
\* status text is formed or sent from it.
C8_Original ==
    (/\ Checked
     /\ \/ response.homeworks.type # "list"
        \/ response.current_date.type # "int") =>
        /\ error.kind \in {"TypeError", "KeyError", "DateError"}
        /\ homeworks = Unbound
        /\ text = Unbound

\* C8, amended: a response whose homeworks is not a list is rejected and no
\* status text is formed or sent from it; a response with a list and with a
\* current_date that is present but not an integer is accepted, its first
\* record is notified as usual, and only the cursor stays where it was.
C8_RejectedOrCursorKept ==
    Checked =>
        /\ response.homeworks.type # "list" =>
               /\ error.kind \in {"TypeError", "KeyError", "DateError"}
               /\ homeworks = Unbound
               /\ text = Unbound
               /\ call.made => call.message = message
        /\ (/\ response.homeworks.type = "list"
            /\ response.current_date.type \notin {"int", "absent"}) =>
               /\ homeworks = response.homeworks
               /\ current_timestamp = cycle_start
               /\ outcome = "success" /\ Len(homeworks.items) > 0 =>
                      call.made /\ call.delivered /\ call.message = text

\* a status was delivered from a response whose current_date is a string
C8_Witness ==
    /\ Checked
    /\ response.current_date.type = "str"
    /\ outcome = "success"
    /\ call.made
    /\ call.delivered
    /\ current_timestamp = cycle_start

\* all three configuration values are non-empty strings
TokensPresent ==
    \A t \in {PRACTICUM_TOKEN, TELEGRAM_TOKEN, TELEGRAM_CHAT_ID} :
        t.type = "str" /\ t.str # ""

\* C9: with a token missing or empty main never enters the loop:
\* get_api_answer and send_message are never called; with all three present
\* main enters the loop.
C9_TokensGuardLoop ==
    /\ ~TokensPresent =>
           /\ pc \in {"main", "halted"}
           /\ from_date = Unbound
           /\ ~call.made
           /\ ~prev.call.made
           /\ current_timestamp = Unbound
    /\ TokensPresent /\ pc # "main" =>
           /\ pc # "halted"
           /\ current_timestamp # Unbound
           /\ error_cache # Unbound

\* main halted because the chat id is empty
C9_Witness ==
    /\ pc = "halted"
    /\ PRACTICUM_TOKEN = StrV("token")
    /\ TELEGRAM_TOKEN = StrV("token")
    /\ TELEGRAM_CHAT_ID = StrV("")

\* C10: when a cycle in which nothing was raised is over, the cursor is the
\* response's current_date if that is an integer and otherwise what it was
\* when the cycle began, and the next get_api_answer call is made with
\* exactly this cursor.
C10_CursorFollowsDate ==
    [][pc = "try" /\ outcome = "success" /\ pc' # "try" =>
          /\ current_timestamp =
                 IF response.current_date.type = "int"
                 THEN response.current_date
                 ELSE cycle_start
          /\ from_date' = current_timestamp]_vars

\* a second successful cycle in a row: requested from 1, cursor now 2
C10_Witness ==
    /\ prev.outcome = "success"
    /\ outcome = "success"
    /\ from_date = IntV(1)
    /\ current_timestamp = IntV(2)
    /\ response.current_date = IntV(2)

\* check_response has returned the list of the response
Accepted ==
    /\ response.type = "dict"
    /\ response.current_date # Absent
    /\ response.homeworks.type = "list"
    /\ pc \notin {"check_response", "if_homeworks"}

\* what a cycle does with an accepted response, told from the first record
\* of the list alone
FirstRecordDecides ==
    LET items == response.homeworks.items IN
    IF Len(items) = 0
    THEN text = Unbound /\ ~call.made /\ error = NoError
    ELSE LET p == parse_status(items[1]) IN
         IF p.ok
         THEN /\ text = p.value
              /\ pc # "send_message" =>
                     /\ call.made
                     /\ call.message = p.value
                     /\ error = IF call.delivered
                                THEN NoError
                                ELSE send_message("TelegramError", p.value).error
         ELSE /\ text = Unbound
              /\ error = p.error
              /\ call.made => call.message = GenericMessage(p.error)

\* C11: a cycle sends at most one status notification, only for a non-empty
\* list, and its text is parse_status of the first record; the records after
\* the first decide neither the notification, nor the error, nor the cursor:
\* all three are what the first record and current_date alone determine.
C11_OnlyFirstRecordCounts ==
    /\ [](Accepted =>
              /\ FirstRecordDecides
              /\ CycleDone =>
                     current_timestamp =
                         IF error = NoError /\ response.current_date.type = "int"
                         THEN response.current_date
                         ELSE cycle_start)
    /\ [](text # Unbound => Accepted /\ Len(response.homeworks.items) > 0)
    /\ [][call.made /\ pc # "try" => call' = call]_vars

\* the status of the first record was delivered although the record after
\* it has no name
C11_Witness ==
    /\ Accepted
    /\ Len(response.homeworks.items) = 2
    /\ ~parse_status(response.homeworks.items[2]).ok
    /\ outcome = "success"
    /\ call.made
    /\ call.delivered
    /\ call.message = text

\* one time.sleep(RETRY_TIME) has been made in this cycle
SleptOnce == sleeps = 1 /\ slept = RETRY_TIME

\* C12: every cycle, however it ends, sleeps RETRY_TIME exactly once, after
\* its error handling: not before the handling is done, once between two
\* consecutive get_api_answer calls, and also before main terminates on a
\* failed failure notification.
C12_OneSleepPerCycle ==
    /\ [](pc \notin {"main", "halted", "try", "terminated"} =>
              sleeps = 0 /\ slept = 0)
    /\ [](pc \in {"try", "terminated"} /\ CycleDone => SleptOnce)
    /\ [](pc = "terminated" => CycleDone /\ uncaught # NoError)
    /\ [][sleeps' # sleeps /\ sleeps' # 0 => pc = "finally" /\ CycleDone]_vars
    /\ [][pc = "try" /\ pc' # "try" /\ from_date # Unbound => SleptOnce]_vars

\* main has slept and then terminated on a failed failure notification
C12_Witness ==
    /\ pc = "terminated"
    /\ outcome = "generic"
    /\ call.made
    /\ ~call.delivered
    /\ SleptOnce

\* C13: error_cache changes only in the generic handler, when the message
\* differs from the cached one, and becomes that message; cycles that end
\* in success or in the logged branch leave it alone, however many they
\* are.  So the failure M, successful cycles, and M again give one
\* notification of M: the second M finds itself cached and is not sent.
C13_CacheResetOnlyByNewMessage ==
    /\ [][error_cache' # error_cache /\ pc # "main" =>
              /\ pc = "except_generic"
              /\ error_cache # GenericMessage(error)
              /\ error_cache' = GenericMessage(error)]_vars
    /\ [](CycleDone /\ outcome \in {"success", "logged"} =>
              error_cache = cache_start)
    /\ [](outcome = "generic" /\ cache_start = message =>
              ~call.made /\ error_cache = message)
    /\ [](/\ outcome = "generic"
          /\ prev.outcome \in {"success", "logged"}
          /\ prev.message = message
          => ~call.made /\ notified = message)

\* the failure already notified comes back after a successful cycle and
\* is not sent again
C13_Witness ==
    /\ outcome = "generic"
    /\ prev.outcome = "success"
    /\ prev.message = message
    /\ notified = message
    /\ ~call.made

\* C14: parse_status raises KeyError for a record whose homework_name is
\* absent or empty (also when its status is invalid as well), raises
\* KeyError naming the status when the name is there and the status is absent
\* or not approved, reviewing or rejected, and otherwise returns the sentence
\* made of the record's homework_name and the verdict of its status.
C14_ParseStatus ==
    pc # "if_homeworks" =>
        LET rec == homeworks.items[1]
            name == rec.homework_name
            status == rec.status
        IN  IF name \in {Absent, NoneValue, StrV("")}
            THEN /\ text = Unbound
                 /\ error.kind = "KeyError"
                 /\ error.fmt = "no key homework_name"
            ELSE IF status \notin
                        {StrV("approved"), StrV("reviewing"), StrV("rejected")}
            THEN /\ text = Unbound
                 /\ error.kind = "KeyError"
                 /\ error.fmt = "unexpected status: {status}"
                 /\ error.arg = IF status = Absent THEN NoneValue ELSE status
            ELSE /\ error.kind \in {"none", "BotError"}
                 /\ text.homework_name = name.str
                 /\ text.verdict = HOMEWORK_STATUSES[status.str]

\* a record with neither a name nor a known status: the error is the
\* one for homework_name
C14_Witness ==
    /\ homeworks.items[1] = RecordV(Absent, StrV("unknown"))
    /\ error.kind = "KeyError"
    /\ error.fmt = "no key homework_name"
    /\ outcome = "generic"

\* requests.get has returned a response whose status is not 200
StatusNot200 ==
    /\ http_reply # Unbound
    /\ http_reply.transport = "ok"
    /\ http_reply.status_code # 200

\* C15: for an HTTP status other than 200 get_api_answer raises
\* ConnectionError with the status code in its message, and the cycle takes
\* the generic branch: no response is used and no status text formed, the
\* cursor stays, and the failure message is sent if and only if it differs
\* from error_cache.
C15_BadStatusIsGenericFailure ==
    StatusNot200 =>
        /\ error.kind = "ConnectionError"
        /\ error.arg = IntV(http_reply.status_code)
        /\ response = Unbound
        /\ homeworks = Unbound
        /\ text = Unbound
        /\ current_timestamp = cycle_start
        /\ pc \in {"except_generic", "finally", "try", "terminated"}
        /\ CycleDone =>
               /\ outcome = "generic"
               /\ message = GenericMessage(error)
               /\ message.error.arg = IntV(http_reply.status_code)
               /\ call.made <=> cache_start # message
               /\ call.made => call.message = message

\* status 503 a second time: the message is cached and not sent again
C15_Witness ==
    /\ StatusNot200
    /\ http_reply.status_code = 503
    /\ outcome = "generic"
    /\ prev.outcome = "generic"
    /\ prev.call.made
    /\ prev.call.message = message
    /\ ~call.made

\* C16: when the send_message of the generic handler fails, error_cache
\* keeps the value it had (it is assigned only after a successful send), the
\* BotError is not taken by the first except clause but leaves the try
\* statement, and after the sleep main is over: nothing is requested or sent
\* any more.
C16_FailedNoticeStopsMain ==
    /\ [](outcome = "generic" /\ call.made /\ ~call.delivered =>
              /\ uncaught = send_message("TelegramError", message).error
              /\ uncaught.kind = "BotError"
              /\ call.message = message
              /\ error_cache = cache_start
              /\ error_cache # message
              /\ pc = IF sleeps = 0 THEN "finally" ELSE "terminated")
    /\ [](uncaught # NoError =>
              outcome = "generic" /\ call.made /\ ~call.delivered)
    /\ [][pc = "terminated" =>
              pc' = "terminated" /\ from_date' = from_date /\ call' = call]_vars

\* the second failure message could not be sent: main is over and the cache
\* still holds the first
C16_Witness ==
    /\ pc = "terminated"
    /\ uncaught.kind = "BotError"
    /\ cache_start # EmptyStr
    /\ error_cache = cache_start
    /\ error_cache # message

\* C17: the cursor moves only at the end of a try body that ran through, so
\* only after the status message, if there was one, was delivered. In a
\* cycle where get_api_answer, check_response, parse_status or the status
\* send_message raised, the cursor is the one the cycle started with,
\* whatever current_date the response carried, and the next get_api_answer
\* call is made with the same from_date.
C17_CursorMovesAfterDelivery ==
    /\ [](error # NoError \/ outcome \in {"logged", "generic"} =>
              current_timestamp = cycle_start)
    /\ [][pc # "main" /\ current_timestamp' # current_timestamp =>
              /\ pc = "response_date"
              /\ error = NoError
              /\ Len(homeworks.items) > 0 =>
                     call.made /\ call.delivered /\ call.message = text]_vars
    /\ [][pc = "try" /\ outcome \in {"logged", "generic"} /\ pc' # "try" =>
              from_date' = from_date]_vars

\* the status message of a record could not be sent; the response carried an
\* integer current_date other than the cursor, and after the sleep the next
\* request is due with the cursor the cycle started with
C17_Witness ==
    /\ pc = "try"
    /\ outcome = "logged"
    /\ error.kind = "BotError"
    /\ call.made /\ ~call.delivered /\ call.message = text
    /\ response.current_date.type = "int"
    /\ response.current_date # current_timestamp
    /\ current_timestamp = from_date

\* the record whose status message failed is notified in the next cycle,
\* requested with the same from_date
C17_NotifiedAgain ==
    /\ prev.outcome = "logged"
    /\ prev.call.made /\ ~prev.call.delivered
    /\ call.made /\ call.delivered
    /\ call.message = prev.call.message

=============================================================================
